---------------------------- MODULE Spec2Model ----------------------------
(***************************************************************************)
(* A model of advanced-vector/vector.h: RawMemory<T> (an owned block of    *)
(* raw cells) and Vector<T> (a RawMemory plus the number of live cells).   *)
(*                                                                         *)
(* The heap maps a buffer address to the cells of the block allocated      *)
(* there; a cell is Raw (no object) or holds the value of a live object.   *)
(* Every operation of the classes is one action.  Inside an action the     *)
(* statements of the method are applied in order to a "machine" record m   *)
(*   heap   - the heap                                                     *)
(*   n      - how many element operations that may throw have run          *)
(*   f      - the number of the element operation that throws (0: none)    *)
(*   exc    - the exception in flight ("none", "bad_alloc", "elem")        *)
(*   faults - misuses of memory seen during the call                       *)
(* A statement applied to a machine with an exception in flight does       *)
(* nothing; destructors of locals and catch blocks are applied with the    *)
(* operators that ignore the exception in flight.                          *)
(***************************************************************************)
EXTENDS Integers, Sequences, FiniteSets

VARIABLES
    heap,     \* [1..MaxBuf -> sequence of cells], <<>> where nothing is allocated
    vec,      \* the Vector objects: [data_: RawMemory, size_, alive]
    raw,      \* free-standing RawMemory objects: [buffer_, capacity_, alive]
    T,        \* traits of the element type: [nothrow_move, copyable]
    last,     \* the last call: [op, who, src, exc, n, pos, arg, ret]
    faults,   \* memory misuses of the last call
    appends   \* successful appends (counted by the append-only specification)

vars == <<heap, vec, raw, T, last, faults, appends>>

(***************************************************************************)
(* Bounds of the model.                                                    *)
(***************************************************************************)
MaxCap == 3     \* largest capacity or size a caller asks for
MaxGrow == 4    \* largest capacity the automatic growth may reach
MaxVal == 1     \* element values are 1..MaxVal
MaxPairCap == 2     \* largest capacity in the two-array specification
MaxAppendCap == 8   \* largest capacity in the append-only specification
MaxBuf == 3     \* addresses the allocator can hand out
MaxRawCap == 2  \* largest capacity of a free-standing RawMemory

Raw == 0 - 1    \* a cell of raw memory: no object lives there
Empty == 0      \* the value of a value-initialised or moved-from object
NullPtr == 0    \* nullptr

Val == 1..MaxVal
Addr == 1..MaxBuf
VecNames == {"a", "b"}
RawNames == {"r1", "r2"}

Live(c) == c # Raw

\* The element types: nothrow-movable and copyable, copyable with a move that
\* may throw, and move-only with a move that may throw.
Traits ==
    { [nothrow_move |-> TRUE,  copyable |-> TRUE],
      [nothrow_move |-> FALSE, copyable |-> TRUE],
      [nothrow_move |-> FALSE, copyable |-> FALSE] }

(***************************************************************************)
(* The machine and the element operations.                                 *)
(***************************************************************************)
Machine(h, f) == [heap |-> h, n |-> 0, f |-> f, exc |-> "none", faults |-> {}]

Thrown(m) == m.exc # "none"

Fault(m, cond, name) == IF cond THEN [m EXCEPT !.faults = @ \cup {name}] ELSE m

\* One element operation that may throw: it is counted, and it throws when it
\* is the f-th one.
Tick(m, canThrow) ==
    IF ~canThrow THEN m
    ELSE [m EXCEPT !.n = @ + 1,
                   !.exc = IF m.n + 1 = m.f THEN "elem" ELSE @]

Cell(m, p, i) == m.heap[p][i + 1]

\* Placement new at cell i of block p of an object with value c.
ConstructAt(m, p, i, c, canThrow) ==
    IF Thrown(m) THEN m
    ELSE LET t == Tick(m, canThrow)
         IN  IF Thrown(t) THEN t
             ELSE Fault([t EXCEPT !.heap[p][i + 1] = c],
                        Live(Cell(m, p, i)), "construct_over_live")

\* T(const T&) from the object at cell j of block q.
CopyConstruct(m, p, i, q, j) ==
    IF Thrown(m) THEN m ELSE ConstructAt(m, p, i, Cell(m, q, j), TRUE)

\* T(T&&) from the object at cell j of block q, which is left moved-from.
MoveConstruct(m, p, i, q, j) ==
    IF Thrown(m) THEN m
    ELSE LET t == ConstructAt(m, p, i, Cell(m, q, j), ~T.nothrow_move)
         IN  IF Thrown(t) THEN t ELSE [t EXCEPT !.heap[q][j + 1] = Empty]

\* Assignment of the value c to the live object at cell i of block p.
AssignAt(m, p, i, c, canThrow) ==
    IF Thrown(m) THEN m
    ELSE LET t == Tick(m, canThrow)
         IN  IF Thrown(t) THEN t
             ELSE Fault([t EXCEPT !.heap[p][i + 1] = c],
                        ~Live(Cell(m, p, i)), "assign_to_raw")

\* operator=(const T&) from the object at cell j of block q.
CopyAssignCell(m, p, i, q, j) ==
    IF Thrown(m) THEN m ELSE AssignAt(m, p, i, Cell(m, q, j), TRUE)

\* operator=(T&&) from the object at cell j of block q, left moved-from.
MoveAssignCell(m, p, i, q, j) ==
    IF Thrown(m) THEN m
    ELSE LET t == AssignAt(m, p, i, Cell(m, q, j), ~T.nothrow_move)
         IN  IF Thrown(t) THEN t ELSE [t EXCEPT !.heap[q][j + 1] = Empty]

\* ~T() on cell i of block p, whatever is in flight (destructors do not throw).
DestroyCell(m, p, i) ==
    Fault([m EXCEPT !.heap[p][i + 1] = Raw], ~Live(Cell(m, p, i)), "destroy_raw")

\* std::destroy_n(p + o, n), whatever is in flight.
RECURSIVE DestroyRange(_, _, _, _)
DestroyRange(m, p, o, n) ==
    IF n = 0 THEN m ELSE DestroyRange(DestroyCell(m, p, o), p, o + 1, n - 1)

\* std::destroy_n(p + o, n) as a statement of a method.
DestroyN(m, p, o, n) == IF Thrown(m) THEN m ELSE DestroyRange(m, p, o, n)

\* std::uninitialized_copy_n / std::uninitialized_move_n (sp + so, n, dp + do): on
\* a throw the objects constructed so far in the destination are destroyed.
RECURSIVE UninitLoop(_, _, _, _, _, _, _, _)
UninitLoop(m, move, sp, so, n, dp, do, k) ==
    IF k = n THEN m
    ELSE LET t == IF move THEN MoveConstruct(m, dp, do + k, sp, so + k)
                          ELSE CopyConstruct(m, dp, do + k, sp, so + k)
         IN  IF Thrown(t) THEN DestroyRange(t, dp, do, k)
             ELSE UninitLoop(t, move, sp, so, n, dp, do, k + 1)

UninitN(m, move, sp, so, n, dp, do) ==
    IF Thrown(m) THEN m ELSE UninitLoop(m, move, sp, so, n, dp, do, 0)

\* std::uninitialized_value_construct_n(p + o, n): T() for each cell.
RECURSIVE ValueLoop(_, _, _, _, _)
ValueLoop(m, p, o, n, k) ==
    IF k = n THEN m
    ELSE LET t == ConstructAt(m, p, o + k, Empty, TRUE)
         IN  IF Thrown(t) THEN DestroyRange(t, p, o, k)
             ELSE ValueLoop(t, p, o, n, k + 1)

UninitValueConstructN(m, p, o, n) ==
    IF Thrown(m) THEN m ELSE ValueLoop(m, p, o, n, 0)

\* std::copy_n(sp, n, dp): copy assignment, first to last.
RECURSIVE CopyLoop(_, _, _, _, _)
CopyLoop(m, sp, n, dp, k) ==
    IF k = n \/ Thrown(m) THEN m
    ELSE CopyLoop(CopyAssignCell(m, dp, k, sp, k), sp, n, dp, k + 1)

CopyN(m, sp, n, dp) == CopyLoop(m, sp, n, dp, 0)

\* std::move(p + first, p + last, p + d): move assignment, first to last.
RECURSIVE MoveForward(_, _, _, _, _)
MoveForward(m, p, first, lastx, d) ==
    IF first >= lastx \/ Thrown(m) THEN m
    ELSE MoveForward(MoveAssignCell(m, p, d, p, first), p, first + 1, lastx, d + 1)

\* A shift to the right that runs first to last, over its own source.
MoveBackwardFirstToLast(m, p, first, lastx, dlast) ==
    MoveForward(m, p, first, lastx, dlast - (lastx - first))

\* std::move_backward(p + first, p + last, p + dlast): move assignment, last to first.
RECURSIVE MoveBackward(_, _, _, _, _)
MoveBackward(m, p, first, lastx, dlast) ==
    IF first >= lastx \/ Thrown(m) THEN m
    ELSE MoveBackward(MoveAssignCell(m, p, dlast - 1, p, lastx - 1),
                      p, first, lastx - 1, dlast - 1)

(***************************************************************************)
(* RawMemory<T>.                                                           *)
(***************************************************************************)
NullBlock == [buffer_ |-> NullPtr, capacity_ |-> 0]

FreeAddrs(h) == {p \in Addr : h[p] = <<>>}

Min(S) == CHOOSE x \in S : \A y \in S : x <= y

\* RawMemory::Allocate(n): [m, p].  operator new throws std::bad_alloc when
\* asked to (oom) or when no address is left.
Allocate(m, n, oom) ==
    IF Thrown(m) \/ n = 0 THEN [m |-> m, p |-> NullPtr]
    ELSE IF oom \/ FreeAddrs(m.heap) = {}
         THEN [m |-> [m EXCEPT !.exc = "bad_alloc"], p |-> NullPtr]
         ELSE LET p == Min(FreeAddrs(m.heap))
              IN  [m |-> [m EXCEPT !.heap[p] = [i \in 1..n |-> Raw]], p |-> p]

\* RawMemory::Deallocate(buf): operator delete, whatever is in flight.
Deallocate(m, p) ==
    IF p = NullPtr THEN m
    ELSE IF m.heap[p] = <<>> THEN Fault(m, TRUE, "double_free")
    ELSE Fault([m EXCEPT !.heap[p] = <<>>],
               \E i \in DOMAIN m.heap[p] : Live(m.heap[p][i]), "freed_live")

\* RawMemory(size_t capacity): [m, r].
RawMemoryCtor(m, capacity, oom) ==
    LET a == Allocate(m, capacity, oom)
    IN  [m |-> a.m,
         r |-> IF Thrown(a.m) THEN NullBlock
               ELSE [buffer_ |-> a.p, capacity_ |-> capacity]]

\* ~RawMemory().
RawMemoryDtor(m, r) == Deallocate(m, r.buffer_)

\* RawMemory::operator=(RawMemory&&) on the objects rs[l] and rs[r], which
\* may be the same object: [m, rs].
RawMoveAssign(m, rs, l, r) ==
    LET m1 == Deallocate(m, rs[l].buffer_)
        oldb == rs[r].buffer_
        rs1 == [rs EXCEPT ![r].buffer_ = NullPtr]
        rs2 == [rs1 EXCEPT ![l].buffer_ = oldb]
        oldc == rs2[r].capacity_
        rs3 == [rs2 EXCEPT ![r].capacity_ = 0]
        rs4 == [rs3 EXCEPT ![l].capacity_ = oldc]
    IN  [m |-> m1, rs |-> rs4]

\* RawMemory(RawMemory&&): the new object starts as {nullptr, 0}.
RawMoveCtor(m, rs, l, r) ==
    RawMoveAssign(m, [rs EXCEPT ![l] = [buffer_ |-> NullPtr, capacity_ |-> 0,
                                        alive |-> TRUE]], l, r)

\* RawMemory::Swap on the objects rs[l] and rs[r].
RawSwap(rs, l, r) ==
    [rs EXCEPT ![l].buffer_ = rs[r].buffer_, ![l].capacity_ = rs[r].capacity_,
               ![r].buffer_ = rs[l].buffer_, ![r].capacity_ = rs[l].capacity_]

(***************************************************************************)
(* Vector<T>.  A method is an operator from the machine and the object to  *)
(* [m, v, ret]: the machine, the object and the index returned (NoRet when *)
(* the method returns nothing or throws).                                  *)
(***************************************************************************)
NoRet == 0 - 1

\* Vector(): data_ = {nullptr, 0}, size_ = 0.
EmptyVector == [data_ |-> NullBlock, size_ |-> 0, alive |-> TRUE]

\* A Vector whose lifetime has ended (or has not begun).
DeadVector == [data_ |-> NullBlock, size_ |-> 0, alive |-> FALSE]

Buf(v) == v.data_.buffer_

\* Vector::Capacity().
Capacity(v) == v.data_.capacity_

\* A transplant that moves whatever the element type is.
UseMoveAlways == TRUE

\* The move-or-copy choice of the transplants:
\* is_nothrow_move_constructible_v<T> || !is_copy_constructible_v<T>.
UseMove == T.nothrow_move \/ ~T.copyable

\* The argument of PushBack / EmplaceBack / Insert / Emplace: a value built from
\* constructor arguments or copied from an object outside the array ("value"),
\* an rvalue outside the array ("rvalue"), or a const reference to element x of
\* the array itself ("alias").
ArgValue(m, v, arg) ==
    IF arg.kind = "alias" THEN Cell(m, Buf(v), arg.x) ELSE arg.x

ArgThrows(arg) == IF arg.kind = "rvalue" THEN ~T.nothrow_move ELSE TRUE

\* new (p + i) T(std::forward<Args>(args)...), v being the array as it was
\* when the call was made (the reference points into its block).
ConstructArg(m, p, i, arg, v) ==
    IF Thrown(m) THEN m
    ELSE ConstructAt(m, p, i, ArgValue(m, v, arg), ArgThrows(arg))

\* Vector(size_t size).
VectorSizeCtor(m, size, oom) ==
    LET a == RawMemoryCtor(m, size, oom)
        m1 == UninitValueConstructN(a.m, a.r.buffer_, 0, size)
        built == ~Thrown(m1)
        m2 == IF built THEN m1 ELSE RawMemoryDtor(m1, a.r)
    IN  [m |-> m2,
         v |-> IF built THEN [data_ |-> a.r, size_ |-> size, alive |-> TRUE]
               ELSE DeadVector,
         ret |-> NoRet]

\* ~Vector().
VectorDtor(m, v) ==
    RawMemoryDtor(DestroyRange(m, Buf(v), 0, v.size_), v.data_)

\* Vector(const Vector& other).
VectorCopyCtor(m, other, oom) ==
    LET a == RawMemoryCtor(m, other.size_, oom)
        m1 == UninitN(a.m, FALSE, Buf(other), 0, other.size_, a.r.buffer_, 0)
        built == ~Thrown(m1)
        m2 == IF built THEN m1 ELSE RawMemoryDtor(m1, a.r)
    IN  [m |-> m2,
         v |-> IF built THEN [data_ |-> a.r, size_ |-> other.size_, alive |-> TRUE]
               ELSE DeadVector,
         ret |-> NoRet]

\* Vector::Swap on the objects vs[l] and vs[r].
VectorSwap(vs, l, r) ==
    [vs EXCEPT ![l].data_ = vs[r].data_, ![l].size_ = vs[r].size_,
               ![r].data_ = vs[l].data_, ![r].size_ = vs[l].size_]

\* Vector(Vector&& other): the new object starts empty and swaps.
VectorMoveCtor(vs, l, r) == VectorSwap([vs EXCEPT ![l] = EmptyVector], l, r)

\* Vector::operator=(Vector&&).
VectorMoveAssign(vs, l, r) == VectorSwap(vs, l, r)

\* A copy assignment that gives up its own elements and block before it copies.
VectorCopyAssignClearFirst(m, vs, l, r, oom) ==
    IF l = r THEN [m |-> m, vs |-> vs]
    ELSE LET c == VectorCopyCtor(VectorDtor(m, vs[l]), vs[r], oom)
         IN  [m |-> c.m,
              vs |-> [vs EXCEPT ![l] = IF Thrown(c.m) THEN EmptyVector ELSE c.v]]

\* Vector::operator=(const Vector&) on the objects vs[l] and vs[r]: [m, vs].
VectorCopyAssign(m, vs, l, r, oom) ==
    IF l = r THEN [m |-> m, vs |-> vs]
    ELSE IF vs[r].size_ > Capacity(vs[l])
    THEN LET c == VectorCopyCtor(m, vs[r], oom)          \* rhs_copy
         IN  IF Thrown(c.m) THEN [m |-> c.m, vs |-> vs]
             ELSE [m |-> VectorDtor(c.m, vs[l]),        \* Swap, then ~rhs_copy
                   vs |-> [vs EXCEPT ![l] = c.v]]
    ELSE LET this == vs[l]
             rhs == vs[r]
             copy_pos == IF rhs.size_ < this.size_ THEN rhs.size_ ELSE this.size_
             m1 == CopyN(m, Buf(rhs), copy_pos, Buf(this))
             m2 == IF rhs.size_ < this.size_
                   THEN DestroyN(m1, Buf(this), copy_pos, this.size_ - rhs.size_)
                   ELSE UninitN(m1, FALSE, Buf(rhs), this.size_,
                                rhs.size_ - this.size_, Buf(this), copy_pos)
         IN  [m |-> m2,
              vs |-> IF Thrown(m2) THEN vs ELSE [vs EXCEPT ![l].size_ = rhs.size_]]

\* The tail shared by the growth paths: destroy the old objects, swap the new
\* block in, and free the block the local RawMemory then holds.
SwapIn(m, v, nd) ==
    LET m1 == DestroyN(m, Buf(v), 0, v.size_)
    IN  IF Thrown(m1) THEN [m |-> RawMemoryDtor(m1, nd), v |-> v]
        ELSE [m |-> RawMemoryDtor(m1, v.data_), v |-> [v EXCEPT !.data_ = nd]]

\* Vector::Reserve(new_capacity).
Reserve(m, v, new_capacity, oom) ==
    IF new_capacity <= Capacity(v) THEN [m |-> m, v |-> v, ret |-> NoRet]
    ELSE LET a == RawMemoryCtor(m, new_capacity, oom)    \* new_data
             m1 == UninitN(a.m, UseMove, Buf(v), 0, v.size_, a.r.buffer_, 0)
             s == SwapIn(m1, v, a.r)
         IN  [m |-> s.m, v |-> s.v, ret |-> NoRet]

\* Vector::Resize(new_size).
Resize(m, v, new_size, oom) ==
    IF new_size = v.size_ THEN [m |-> m, v |-> v, ret |-> NoRet]
    ELSE IF new_size < v.size_
    THEN [m |-> DestroyN(m, Buf(v), new_size, v.size_ - new_size),
          v |-> [v EXCEPT !.size_ = new_size], ret |-> NoRet]
    ELSE LET r == Reserve(m, v, new_size, oom)
             m1 == UninitValueConstructN(r.m, Buf(r.v), v.size_, new_size - v.size_)
         IN  [m |-> m1,
              v |-> IF Thrown(m1) THEN r.v ELSE [r.v EXCEPT !.size_ = new_size],
              ret |-> NoRet]

\* Vector::PopBack().
PopBack(m, v) ==
    IF v.size_ # 0
    THEN [m |-> DestroyCell(m, Buf(v), v.size_ - 1),
          v |-> [v EXCEPT !.size_ = @ - 1], ret |-> NoRet]
    ELSE [m |-> m, v |-> v, ret |-> NoRet]

\* A growth by one cell.
GrowByOne(size) == size + 1

\* The automatic growth: size_ == 0 ? 1 : size_ * 2.
GrownCapacity(size) == IF size = 0 THEN 1 ELSE size * 2

\* Vector::EmplaceBack(args...); ret is the index of the element returned.
EmplaceBack(m, v, arg, oom) ==
    LET r == IF v.size_ = Capacity(v)
             THEN LET a == RawMemoryCtor(m, GrownCapacity(v.size_), oom)
                      m1 == ConstructArg(a.m, a.r.buffer_, v.size_, arg, v)
                      m2 == UninitN(m1, UseMove, Buf(v), 0, v.size_, a.r.buffer_, 0)
                  IN  SwapIn(m2, v, a.r)
             ELSE [m |-> ConstructArg(m, Buf(v), v.size_, arg, v), v |-> v]
    IN  IF Thrown(r.m) THEN [m |-> r.m, v |-> r.v, ret |-> NoRet]
        ELSE [m |-> r.m, v |-> [r.v EXCEPT !.size_ = @ + 1], ret |-> v.size_]

\* Vector::Emplace(pos, args...), with index = pos - cbegin(); ret is the
\* index of the position returned.
Emplace(m, v, index, arg, oom) ==
    LET b == Buf(v)
        r == IF v.size_ = Capacity(v)
             THEN LET count_before == index
                      count_after == v.size_ - index
                      a == RawMemoryCtor(m, GrownCapacity(v.size_), oom)   \* tmp
                      t == a.r.buffer_
                      m1 == ConstructArg(a.m, t, index, arg, v)
                      m2 == UninitN(m1, UseMove, b, 0, count_before, t, 0)
                      m3 == UninitN(m2, UseMove, b, count_before, count_after,
                                    t, count_before + 1)
                      m4 == IF ~Thrown(m1) /\ Thrown(m3)              \* catch (...)
                            THEN DestroyRange(m3, t, 0, index + 1)
                            ELSE m3
                  IN  SwapIn(m4, v, a.r)
             ELSE IF v.size_ # index
             THEN LET m1 == MoveConstruct(m, b, v.size_, b, v.size_ - 1)
                      m2 == MoveBackward(m1, b, index, v.size_ - 1, v.size_)
                      \* the temporary T(args...), then its move assignment
                      m3 == IF Thrown(m2) THEN m2 ELSE Tick(m2, ArgThrows(arg))
                      m4 == AssignAt(m3, b, index, ArgValue(m2, v, arg),
                                     ~T.nothrow_move)
                  IN  [m |-> m4, v |-> v]
             ELSE [m |-> ConstructArg(m, b, index, arg, v), v |-> v]
    IN  IF Thrown(r.m) THEN [m |-> r.m, v |-> r.v, ret |-> NoRet]
        ELSE [m |-> r.m, v |-> [r.v EXCEPT !.size_ = @ + 1], ret |-> index]

\* Vector::Erase(pos), with index = pos - begin(); requires size_ > 0.
Erase(m, v, index) ==
    LET m1 == MoveForward(m, Buf(v), index + 1, v.size_, index)
    IN  IF Thrown(m1) THEN [m |-> m1, v |-> v, ret |-> NoRet]
        ELSE [m |-> DestroyCell(m1, Buf(v), v.size_ - 1),
              v |-> [v EXCEPT !.size_ = @ - 1], ret |-> index]

(***************************************************************************)
(* The calls.  An action is one call of a method on the object named v,    *)
(* with its inputs and the failure injected into it: the f-th element      *)
(* operation of the call throws, or the allocation fails (oom).  cb bounds *)
(* the capacities the call may ask for.                                    *)
(***************************************************************************)
NoArg == [kind |-> "none", x |-> 0]

\* The failures worth injecting into a call that runs n element operations
\* when nothing fails: none, any one of the n, or the allocation.
Failures(n) ==
    {[f |-> k, oom |-> FALSE] : k \in 0..n} \cup {[f |-> 0, oom |-> TRUE]}

\* The arguments of an insertion into the array v: a value built from
\* constructor arguments or copied from outside, an rvalue from outside, or
\* (PushBack(const T&), Insert(pos, const T&)) a reference to an element of v.
ValueArgs == {[kind |-> "value", x |-> c] : c \in Val}

Args(v) ==
    ValueArgs
        \cup {[kind |-> "rvalue", x |-> c] : c \in Val}
        \cup {[kind |-> "alias", x |-> i] :
                  i \in IF T.copyable THEN 0..(v.size_ - 1) ELSE {}}

\* The values of the elements [0, size_) of the array v in heap h.
Elems(h, v) == [i \in 1..v.size_ |-> h[Buf(v)][i]]

\* What a call leaves behind: r is the [m, v, ret] of the method.  The position
\* and the argument are kept for the calls that returned, the number of element
\* operations that ran (the last of them threw) for those that threw.
Finish(op, v, r, pos, arg) ==
    /\ heap' = r.m.heap
    /\ vec' = [vec EXCEPT ![v] = r.v]
    /\ last' = [op |-> op, who |-> v, src |-> v, exc |-> r.m.exc,
                n |-> IF Thrown(r.m) THEN r.m.n ELSE 0,
                pos |-> IF Thrown(r.m) THEN NoRet ELSE pos,
                arg |-> IF Thrown(r.m) THEN NoArg ELSE arg,
                ret |-> r.ret]
    /\ faults' = r.m.faults
    /\ UNCHANGED <<raw, T>>

\* What a call on the arrays l and src leaves behind: r is [m, vs].
FinishPair(op, l, src, r) ==
    /\ heap' = r.m.heap
    /\ vec' = r.vs
    /\ last' = [op |-> op, who |-> l, src |-> src, exc |-> r.m.exc,
                n |-> IF Thrown(r.m) THEN r.m.n ELSE 0,
                pos |-> NoRet, arg |-> NoArg, ret |-> NoRet]
    /\ faults' = r.m.faults
    /\ UNCHANGED <<raw, T>>

\* Vector v;
CtorCall(v) ==
    /\ ~vec[v].alive
    /\ Finish("Vector", v, [m |-> Machine(heap, 0), v |-> EmptyVector,
                            ret |-> NoRet], NoRet, NoArg)

\* Vector v(size);
SizeCtorCall(v, cb) ==
    /\ ~vec[v].alive
    /\ \E size \in 1..cb : \E x \in Failures(size) :
          Finish("Vector(size)", v,
                 VectorSizeCtor(Machine(heap, x.f), size, x.oom), NoRet, NoArg)

\* The end of v's lifetime.
DtorCall(v) ==
    /\ vec[v].alive
    /\ Finish("~Vector", v, [m |-> VectorDtor(Machine(heap, 0), vec[v]),
                             v |-> DeadVector, ret |-> NoRet], NoRet, NoArg)

\* v.Reserve(n).
ReserveCall(v, cb) ==
    /\ vec[v].alive
    /\ \E n \in 0..cb :
          \E x \in Failures(Reserve(Machine(heap, 0), vec[v], n, FALSE).m.n) :
             Finish("Reserve", v, Reserve(Machine(heap, x.f), vec[v], n, x.oom),
                    NoRet, NoArg)

\* v.Resize(n).
ResizeCall(v, cb) ==
    /\ vec[v].alive
    /\ \E n \in 0..cb :
          \E x \in Failures(Resize(Machine(heap, 0), vec[v], n, FALSE).m.n) :
             Finish("Resize", v, Resize(Machine(heap, x.f), vec[v], n, x.oom),
                    NoRet, NoArg)

\* v.PopBack().
PopBackCall(v) ==
    /\ vec[v].alive
    /\ Finish("PopBack", v, PopBack(Machine(heap, 0), vec[v]), NoRet, NoArg)

\* The call may grow the block only up to cb.
MayAppend(v, cb) ==
    vec[v].size_ = Capacity(vec[v]) => GrownCapacity(vec[v].size_) <= cb

\* v.EmplaceBack(args...), and v.PushBack(value) (PushBack(const T&) and
\* PushBack(T&&) forward their argument to EmplaceBack), with an argument
\* among args.
EmplaceBackCall(v, cb, args) ==
    /\ vec[v].alive /\ MayAppend(v, cb)
    /\ \E arg \in args :
          \E x \in Failures(EmplaceBack(Machine(heap, 0), vec[v], arg, FALSE).m.n) :
             Finish("EmplaceBack", v,
                    EmplaceBack(Machine(heap, x.f), vec[v], arg, x.oom),
                    NoRet, arg)

\* v.Emplace(pos, args...), and v.Insert(pos, value) (Insert(pos, const T&) and
\* Insert(pos, T&&) forward their argument to Emplace).
EmplaceCall(v, cb) ==
    /\ vec[v].alive /\ MayAppend(v, cb)
    /\ \E index \in 0..vec[v].size_, arg \in Args(vec[v]) :
          \E x \in Failures(Emplace(Machine(heap, 0), vec[v], index, arg, FALSE).m.n) :
             Finish("Emplace", v,
                    Emplace(Machine(heap, x.f), vec[v], index, arg, x.oom),
                    index, arg)

\* v.Erase(pos).
EraseCall(v) ==
    /\ vec[v].alive /\ vec[v].size_ > 0
    /\ \E index \in 0..(vec[v].size_ - 1) :
          \E f \in 0..Erase(Machine(heap, 0), vec[v], index).m.n :
             Finish("Erase", v, Erase(Machine(heap, f), vec[v], index), index, NoArg)

\* l = r (copy assignment).
CopyAssignCall(l, r) ==
    /\ vec[l].alive /\ vec[r].alive /\ T.copyable
    /\ \E x \in Failures(VectorCopyAssign(Machine(heap, 0), vec, l, r, FALSE).m.n) :
          FinishPair("operator=(const&)", l, r,
                     VectorCopyAssign(Machine(heap, x.f), vec, l, r, x.oom))

\* Vector l(r) (copy construction).
CopyCtorCall(l, r) ==
    /\ ~vec[l].alive /\ vec[r].alive /\ T.copyable
    /\ \E x \in Failures(vec[r].size_) :
          LET c == VectorCopyCtor(Machine(heap, x.f), vec[r], x.oom)
          IN  FinishPair("Vector(const&)", l, r,
                         [m |-> c.m, vs |-> [vec EXCEPT ![l] = c.v]])

\* Vector l(std::move(r)).
MoveCtorCall(l, r) ==
    /\ ~vec[l].alive /\ vec[r].alive
    /\ FinishPair("Vector(&&)", l, r,
                  [m |-> Machine(heap, 0), vs |-> VectorMoveCtor(vec, l, r)])

\* l = std::move(r).
MoveAssignCall(l, r) ==
    /\ vec[l].alive /\ vec[r].alive
    /\ FinishPair("operator=(&&)", l, r,
                  [m |-> Machine(heap, 0), vs |-> VectorMoveAssign(vec, l, r)])

\* l.Swap(r).
SwapCall(l, r) ==
    /\ vec[l].alive /\ vec[r].alive
    /\ FinishPair("Swap", l, r,
                  [m |-> Machine(heap, 0), vs |-> VectorSwap(vec, l, r)])

(***************************************************************************)
(* One array, every method of it.                                          *)
(***************************************************************************)
NoCall == [op |-> "none", who |-> "a", src |-> "a", exc |-> "none", n |-> 0,
           pos |-> NoRet, arg |-> NoArg, ret |-> NoRet]

Init ==
    /\ heap = [p \in Addr |-> <<>>]
    /\ vec = [v \in VecNames |-> IF v = "a" THEN EmptyVector ELSE DeadVector]
    /\ raw = [r \in RawNames |-> [buffer_ |-> NullPtr, capacity_ |-> 0,
                                  alive |-> FALSE]]
    /\ T \in Traits
    /\ last = NoCall
    /\ faults = {}
    /\ appends = 0

Construct == CtorCall("a") /\ UNCHANGED appends
ConstructSize == SizeCtorCall("a", MaxCap) /\ UNCHANGED appends
Destruct == DtorCall("a") /\ UNCHANGED appends
DoReserve == ReserveCall("a", MaxCap) /\ UNCHANGED appends
DoResize == ResizeCall("a", MaxCap) /\ UNCHANGED appends
DoPopBack == PopBackCall("a") /\ UNCHANGED appends
DoEmplaceBack == EmplaceBackCall("a", MaxGrow, Args(vec["a"])) /\ UNCHANGED appends
DoEmplace == EmplaceCall("a", MaxGrow) /\ UNCHANGED appends
DoErase == EraseCall("a") /\ UNCHANGED appends

Next ==
    \/ Construct \/ ConstructSize \/ Destruct
    \/ DoReserve \/ DoResize \/ DoPopBack
    \/ DoEmplaceBack \/ DoEmplace \/ DoErase

Spec == Init /\ [][Next]_vars

(***************************************************************************)
(* Two arrays: the operations between them, and enough of the rest to fill *)
(* them.                                                                   *)
(***************************************************************************)
InitPair ==
    /\ heap = [p \in Addr |-> <<>>]
    /\ vec = [v \in VecNames |-> EmptyVector]
    /\ raw = [r \in RawNames |-> [buffer_ |-> NullPtr, capacity_ |-> 0,
                                  alive |-> FALSE]]
    /\ T \in Traits
    /\ last = NoCall
    /\ faults = {}
    /\ appends = 0

PairConstruct == \E v \in VecNames : CtorCall(v) /\ UNCHANGED appends
PairConstructSize ==
    \E v \in VecNames : SizeCtorCall(v, MaxPairCap) /\ UNCHANGED appends
PairDestruct == \E v \in VecNames : DtorCall(v) /\ UNCHANGED appends
PairPopBack == \E v \in VecNames : PopBackCall(v) /\ UNCHANGED appends
\* Two element values tell the elements of one array from those of the
\* other: T(), which Vector(size) constructs, and one appended value.
PairArgs == {[kind |-> "value", x |-> MaxVal]}
PairEmplaceBack ==
    \E v \in VecNames :
       EmplaceBackCall(v, MaxPairCap, PairArgs) /\ UNCHANGED appends
PairCopyCtor == \E l, r \in VecNames : CopyCtorCall(l, r) /\ UNCHANGED appends
PairMoveCtor == \E l, r \in VecNames : MoveCtorCall(l, r) /\ UNCHANGED appends
PairCopyAssign == \E l, r \in VecNames : CopyAssignCall(l, r) /\ UNCHANGED appends
PairMoveAssign == \E l, r \in VecNames : MoveAssignCall(l, r) /\ UNCHANGED appends
PairSwap == \E l, r \in VecNames : SwapCall(l, r) /\ UNCHANGED appends

NextPair ==
    \/ PairConstruct \/ PairConstructSize \/ PairDestruct \/ PairPopBack
    \/ PairEmplaceBack \/ PairCopyCtor \/ PairMoveCtor
    \/ PairCopyAssign \/ PairMoveAssign \/ PairSwap

SpecPair == InitPair /\ [][NextPair]_vars

(***************************************************************************)
(* One array, from empty, appended to and nothing else.                    *)
(***************************************************************************)
AppendOnly ==
    /\ EmplaceBackCall("a", MaxAppendCap, Args(vec["a"]))
    /\ appends' = IF last'.exc = "none" THEN appends + 1 ELSE appends

SpecAppend == Init /\ [][AppendOnly]_vars

(***************************************************************************)
(* Free-standing RawMemory objects.                                        *)
(***************************************************************************)
DeadBlock == [buffer_ |-> NullPtr, capacity_ |-> 0, alive |-> FALSE]

\* What a call on the blocks l and src leaves behind: r is [m, rs].
FinishRaw(op, l, src, r) ==
    /\ heap' = r.m.heap
    /\ raw' = r.rs
    /\ last' = [op |-> op, who |-> l, src |-> src, exc |-> r.m.exc, n |-> 0,
                pos |-> NoRet, arg |-> NoArg, ret |-> NoRet]
    /\ faults' = r.m.faults
    /\ UNCHANGED <<vec, T, appends>>

\* RawMemory<T> l(capacity);  (capacity 0: as RawMemory<T> l;)
RawCtorCall ==
    \E l \in RawNames, capacity \in 0..MaxRawCap, oom \in BOOLEAN :
       /\ ~raw[l].alive
       /\ LET c == RawMemoryCtor(Machine(heap, 0), capacity, oom)
          IN  FinishRaw("RawMemory(capacity)", l, l,
                        [m |-> c.m,
                         rs |-> IF Thrown(c.m) THEN raw
                                ELSE [raw EXCEPT ![l] =
                                        [buffer_ |-> c.r.buffer_,
                                         capacity_ |-> c.r.capacity_,
                                         alive |-> TRUE]]])

\* The end of l's lifetime.
RawDtorCall ==
    \E l \in RawNames :
       /\ raw[l].alive
       /\ FinishRaw("~RawMemory", l, l,
                    [m |-> RawMemoryDtor(Machine(heap, 0), raw[l]),
                     rs |-> [raw EXCEPT ![l] = DeadBlock]])

\* RawMemory<T> l(std::move(r));
RawMoveCtorCall ==
    \E l, r \in RawNames :
       /\ ~raw[l].alive /\ raw[r].alive
       /\ FinishRaw("RawMemory(&&)", l, r, RawMoveCtor(Machine(heap, 0), raw, l, r))

\* l = std::move(r);  l and r may be the same object.
RawMoveAssignCall ==
    \E l, r \in RawNames :
       /\ raw[l].alive /\ raw[r].alive
       /\ FinishRaw("operator=(&&)", l, r,
                    RawMoveAssign(Machine(heap, 0), raw, l, r))

\* l.Swap(r);
RawSwapCall ==
    \E l, r \in RawNames :
       /\ raw[l].alive /\ raw[r].alive
       /\ FinishRaw("Swap", l, r,
                    [m |-> Machine(heap, 0), rs |-> RawSwap(raw, l, r)])

InitRaw ==
    /\ heap = [p \in Addr |-> <<>>]
    /\ vec = [v \in VecNames |-> DeadVector]
    /\ raw = [r \in RawNames |-> DeadBlock]
    /\ T \in Traits
    /\ last = NoCall
    /\ faults = {}
    /\ appends = 0

NextRaw ==
    \/ RawCtorCall \/ RawDtorCall \/ RawMoveCtorCall
    \/ RawMoveAssignCall \/ RawSwapCall

SpecRaw == InitRaw /\ [][NextRaw]_vars

(***************************************************************************)
(* The properties.                                                         *)
(***************************************************************************)
A == vec["a"]

\* The sequence s with x inserted before its element at (0-based) index i.
InsertAt(s, i, x) ==
    [k \in 1..(Len(s) + 1) |->
        IF k <= i THEN s[k] ELSE IF k = i + 1 THEN x ELSE s[k - 1]]

\* The sequence s without its element at (0-based) index i.
RemoveAt(s, i) ==
    [k \in 1..(Len(s) - 1) |-> IF k <= i THEN s[k] ELSE s[k + 1]]

\* The step leaves the size, the capacity and the element values of array v
\* as they were.
SameArray(v) ==
    /\ vec'[v].size_ = vec[v].size_
    /\ Capacity(vec'[v]) = Capacity(vec[v])
    /\ Elems(heap', vec'[v]) = Elems(heap, vec[v])

\* The cells [0, size) of v's block hold live objects and the cells
\* [size, capacity) hold none.
WellFormed(h, v) ==
    /\ v.size_ <= Capacity(v)
    /\ \A i \in 1..Capacity(v) : Live(h[Buf(v)][i]) <=> i <= v.size_

\* C1: an Emplace / Insert that throws leaves the size, the capacity and the
\* element values of the array as they were before the call.  (Stated for the
\* element types that are copyable and whose move cannot throw: there only a
\* constructor or a copy throws.)
C1_EmplaceStrongGuarantee ==
    [][(/\ T.copyable /\ T.nothrow_move
        /\ last'.op = "Emplace" /\ last'.exc # "none") => SameArray("a")]_vars

\* C4: in every reachable state, also after a call that threw, size <= capacity,
\* every cell in [0, size) holds a live object and no cell in [size, capacity)
\* does.  (Stated for the element types that are copyable and whose move
\* cannot throw.)
C4_SizeCapacityLiveCells ==
    (T.copyable /\ T.nothrow_move)
    => \A v \in VecNames : vec[v].alive => WellFormed(heap, vec[v])

\* C5: when the allocation fails, or the element type is one whose transplant
\* copies and a copy throws, in Reserve or in EmplaceBack / PushBack on a full
\* array, the size, the capacity and the element values are as before the call.
C5_GrowthFailureKeepsArray ==
    [][(/\ last'.exc # "none"
        /\ \/ last'.op = "Reserve"
           \/ last'.op = "EmplaceBack" /\ A.size_ = Capacity(A)
        /\ \/ last'.exc = "bad_alloc"
           \/ T.copyable /\ ~T.nothrow_move)
       => SameArray("a")]_vars

\* A copy threw part-way through the transplant of an EmplaceBack on a full
\* array of two elements: the new element and the first copy were made, the
\* second copy threw.
C5_Witness ==
    /\ last.op = "EmplaceBack" /\ last.exc = "elem" /\ last.n = 3
    /\ T.copyable /\ ~T.nothrow_move
    /\ A.size_ = 2 /\ Capacity(A) = 2

\* C6: an Emplace / Insert of a value V (not an element of the array) at
\* position P that returns yields the old sequence with V inserted at P and
\* returns P; an Erase at position P that returns yields the old sequence
\* without its element at P and returns P.
C6_InsertEraseCorrect ==
    [][/\ (last'.op = "Emplace" /\ last'.exc = "none" /\ last'.arg.kind # "alias")
          => /\ Elems(heap', A') = InsertAt(Elems(heap, A), last'.pos, last'.arg.x)
             /\ last'.ret = last'.pos
       /\ (last'.op = "Erase" /\ last'.exc = "none")
          => /\ Elems(heap', A') = RemoveAt(Elems(heap, A), last'.pos)
             /\ last'.ret = last'.pos]_vars

\* A value was inserted in the middle of an array of three elements.
C6_Witness ==
    /\ last.op = "Emplace" /\ last.exc = "none" /\ last.arg.kind = "value"
    /\ last.pos = 1 /\ A.size_ = 4
    /\ Elems(heap, A)[1] = Empty /\ Elems(heap, A)[3] = Empty

\* C9: when a copy of the transplant into the new block throws in the growth
\* path of Reserve, EmplaceBack or Emplace, no cell that holds no object is
\* destroyed and the new block is not freed while a cell of it holds a live
\* object.  (Stated for the element types whose transplant copies.)
C9_TransplantCleanupExact ==
    (/\ T.copyable /\ ~T.nothrow_move
     /\ last.exc = "elem"
     /\ \/ last.op = "Reserve"
        \/ /\ last.op \in {"EmplaceBack", "Emplace"}
           /\ A.size_ = Capacity(A) /\ last.n >= 2)
    => faults \cap {"destroy_raw", "freed_live"} = {}

\* C10: an EmplaceBack / PushBack / Emplace / Insert whose argument is a
\* reference to element i of the array itself, and that returns, yields the old
\* sequence with the old value of element i inserted at the position.
C10_AliasedArgument ==
    [][(/\ last'.op \in {"EmplaceBack", "Emplace"}
        /\ last'.exc = "none" /\ last'.arg.kind = "alias")
       => Elems(heap', A') = InsertAt(Elems(heap, A), last'.ret,
                                      Elems(heap, A)[last'.arg.x + 1])]_vars

\* C2 as stated: a copy assignment in which a copy throws leaves the size, the
\* capacity and the element values of the left-hand side as they were.
C2_CopyAssignStrongGuarantee ==
    [][(last'.op = "operator=(const&)" /\ last'.exc = "elem")
       => SameArray(last'.who)]_vars

\* C2 as amended: when the N-th copy of a copy assignment a = b throws, the size
\* and the capacity of a are as before; the element values of a are as before
\* when b.size > a.capacity, and otherwise the first N-1 elements of a hold b's
\* values and the others are as before.
C2_CopyAssignGuarantee ==
    [][(last'.op = "operator=(const&)" /\ last'.exc = "elem")
       => LET l == last'.who
              r == last'.src
              old == Elems(heap, vec[l])
              new == Elems(heap', vec'[l])
              rhs == Elems(heap, vec[r])
          IN  /\ vec'[l].size_ = vec[l].size_
              /\ Capacity(vec'[l]) = Capacity(vec[l])
              /\ IF vec[r].size_ > Capacity(vec[l])
                 THEN new = old
                 ELSE \A i \in 1..vec[l].size_ :
                         new[i] = IF i < last'.n THEN rhs[i] ELSE old[i]]_vars

\* The second copy of an assignment in place threw: the first element of the
\* left-hand side holds the right-hand side's value, the second its old one.
C2_Witness ==
    /\ last.op = "operator=(const&)" /\ last.exc = "elem" /\ last.n = 2
    /\ last.who = "a" /\ last.src = "b"
    /\ vec["a"].size_ = 2 /\ vec["b"].size_ = 2
    /\ Elems(heap, vec["a"])[1] = Elems(heap, vec["b"])[1]
    /\ Elems(heap, vec["a"])[2] # Elems(heap, vec["b"])[2]

\* C3: after a move construction B(std::move(A)) or a move assignment
\* B = std::move(A) of another array, A has size 0 and capacity 0 and B has the
\* size and the element values A had.
C3_MovedFromIsEmpty ==
    [][(last'.op \in {"Vector(&&)", "operator=(&&)"} /\ last'.who # last'.src)
       => LET l == last'.who
              r == last'.src
          IN  /\ vec'[r].size_ = 0
              /\ Capacity(vec'[r]) = 0
              /\ vec'[l].size_ = vec[r].size_
              /\ Elems(heap', vec'[l]) = Elems(heap, vec[r])]_vars

\* C7: a RawMemory move-assigned to itself does not refer to a freed buffer, no
\* buffer is freed twice, and capacity 0 implies a null pointer.
C7_RawSelfMoveSafe ==
    /\ "double_free" \notin faults
    /\ \A r \in RawNames :
          raw[r].alive =>
             /\ raw[r].buffer_ # NullPtr => heap[raw[r].buffer_] # <<>>
             /\ raw[r].capacity_ = 0 => raw[r].buffer_ = NullPtr

IsPowerOfTwo(c) == \E k \in 0..c : 2 ^ k = c

\* C8: from an empty array, after N appends that returned, Size() = N and the
\* capacity is a power of two >= N (0 for N = 0); an append on a full array
\* sets the capacity to max(1, 2 x the old one) and any other append leaves it.
C8_AppendDoubling ==
    [][/\ A'.size_ = appends'
       /\ Capacity(A') >= A'.size_
       /\ IF appends' = 0 THEN Capacity(A') = 0 ELSE IsPowerOfTwo(Capacity(A'))
       /\ Capacity(A') =
             IF last'.exc = "none" /\ A.size_ = Capacity(A)
             THEN (IF 2 * Capacity(A) > 1 THEN 2 * Capacity(A) ELSE 1)
             ELSE Capacity(A)]_vars

\* Five appends have returned and the capacity is 8.
C8_Witness == appends = 5 /\ A.size_ = 5 /\ Capacity(A) = 8

=============================================================================
